---- MODULE Spec2Model ----
(***************************************************************************)
(* The reconstruction protocol of the Leo AST                              *)
(* (compiler/ast/src/reducer/reconstructing_reducer.rs): the default body  *)
(* of every reduce_<kind> hook of the trait ReconstructingReducer, and the *)
(* post-order traversal that drives the hooks.                             *)
(*                                                                         *)
(* An AST node is a record tagged with its kind.  Option<T> is the record  *)
(* None or Some(v), Vec<T> and IndexMap<K, V> are sequences (an IndexMap   *)
(* is the sequence of its <<key, value>> entries in iteration order), a    *)
(* Box<T> is its content, and Result<T> is Ok(v) or Err(e).  A hook takes  *)
(* the reducer (&mut self) and returns the reducer it leaves behind with   *)
(* its Result.                                                             *)
(***************************************************************************)
EXTENDS Integers, Sequences, FiniteSets, TLC

\* Number of distinct source spans of the sample trees.
MaxSpan == 2
\* Nesting depth of the sample binary expressions.
MaxDepth == 2
\* Length of the sample statement vectors and mappings.
MaxLen == 2

VARIABLES
    self,       \* the reducer: its in-circuit mode bit
    self0,      \* the reducer when the traversal or the call started
    impl,       \* the protocol implementation: which hooks it overrides
    input,      \* the root handed to the traversal
    stack,      \* the traversal's frames, the root's first
    status,     \* "running", "failed" or "done"
    output,     \* Ok(tree), Err(span), or NoResult while running
    log,        \* the nodes submitted and the hooks invoked, in order
    hookCall    \* the single hook call of the hook-level specification

vars == <<self, self0, impl, input, stack, status, output, log, hookCall>>

----------------------------------------------------------------------------
(* Result, Option and the reducer *)

Ok(v) == [ok |-> TRUE, val |-> v]
Err(e) == [ok |-> FALSE, err |-> e]
Ret(s, r) == [self |-> s, result |-> r]

None == [some |-> FALSE]
Some(v) == [some |-> TRUE, v |-> v]
\* Box::new: the box owns the value and compares as the value does
BoxNew(v) == v
\* Option::map(|v| Box::new(v))
OptionMapBox(o) == IF o.some THEN Some(BoxNew(o.v)) ELSE None
\* RefCell::new: a cell holding the value
RefCellNew(v) == [cell |-> v]

in_circuit(s) == s.in_circuit
swap_in_circuit(s) == [s EXCEPT !.in_circuit = ~@]

----------------------------------------------------------------------------
(* The node kinds: for each, the sample nodes of that kind.  The fields    *)
(* of a kind are those of the struct literal its hook builds.              *)

Spans == 0 .. (MaxSpan - 1)
LastSpan == MaxSpan - 1
Names == {"x", "y", "forbidden"}
NoNode == [kind |-> "None"]
NoResult == [ok |-> FALSE, pending |-> TRUE]

Options(S) == {None} \cup {Some(v) : v \in S}
SeqsUpTo(S, n) == UNION {[1 .. k -> S] : k \in 0 .. n}
\* The insertion-ordered mappings with distinct keys and at most n entries.
MapsUpTo(K, V, n) == {m \in SeqsUpTo(K \X V, n) : \A i, j \in 1 .. Len(m) : m[i][1] = m[j][1] => i = j}

Identifier(n, sp) == [kind |-> "Identifier", name |-> n, span |-> sp]
IntValue(sp) == [kind |-> "Value", variant |-> "Integer", digits |-> "1", span |-> sp]

Identifiers == [kind : {"Identifier"}, name : Names, span : Spans]
Types == [kind : {"Type"}, name : {"u8", "field"}]
IntValues == [kind : {"Value"}, variant : {"Integer"}, digits : {"1"}, span : Spans]
StringValues == [kind : {"Value"}, variant : {"String"}, string : {<<"h", "i">>}, span : Spans]
GroupTuples == [kind : {"GroupTuple"}, x : {"0"}, y : {"1", "+"}, span : Spans]
GroupSingles == [kind : {"GroupSingle"}, digits : {"1"}, span : Spans]
GroupValues == GroupTuples \cup GroupSingles
GroupValueExprs == [kind : {"Value"}, variant : {"Group"}, group : GroupValues]
Values == IntValues \cup StringValues \cup GroupValueExprs

\* The children of the sample nodes, and the children a hook is handed.
IdTiny == {Identifier("x", 0)}
ExprTiny == {Identifier("x", 0), IntValue(LastSpan)}
IdPool == {Identifier("y", sp) : sp \in Spans}
ExprPool == IdPool \cup IntValues

Binaries == [kind : {"Binary"}, left : ExprTiny, right : ExprTiny, op : {"Add", "Mul"}, span : Spans]
Unaries == [kind : {"Unary"}, inner : ExprTiny, op : {"Negate", "Not"}, span : Spans]
Ternaries == [kind : {"Ternary"}, condition : ExprTiny, if_true : ExprTiny, if_false : ExprTiny, span : Spans]
Casts == [kind : {"Cast"}, inner : ExprTiny, target_type : Types, span : Spans]
ArrayAccesses == [kind : {"ArrayAccess"}, array : ExprTiny, index : ExprTiny, span : Spans]
ArrayRangeAccesses == [kind : {"ArrayRangeAccess"}, array : IdTiny, left : Options(ExprTiny), right : Options(ExprTiny), span : Spans]
MemberAccesses == [kind : {"MemberAccess"}, inner : ExprTiny, name : IdTiny, span : Spans, type_ : Options(Types)]
TupleAccesses == [kind : {"TupleAccess"}, tuple : ExprTiny, index : {"0", "1"}, span : Spans]
StaticAccesses == [kind : {"StaticAccess"}, inner : ExprTiny, name : IdTiny, type_ : {RefCellNew(t) : t \in Types}, span : Spans]
SpreadOrExpressions == [kind : {"SpreadOrExpression"}, spread : BOOLEAN, expression : IdTiny]
ArrayInlines == [kind : {"ArrayInline"}, elements : SeqsUpTo(SpreadOrExpressions, MaxLen), span : Spans]
ArrayInits == [kind : {"ArrayInit"}, element : ExprTiny, dimensions : {<<"2">>, <<"2", "3">>}, span : Spans]
TupleInits == [kind : {"TupleInit"}, elements : SeqsUpTo(ExprTiny, MaxLen), span : Spans]
CircuitVariableInitializers == [kind : {"CircuitVariableInitializer"}, identifier : IdTiny, expression : Options(ExprTiny)]
CircuitInits == [kind : {"CircuitInit"}, name : IdTiny, members : SeqsUpTo(CircuitVariableInitializers, 1), span : Spans]
Callees == {Identifier("x", 0), Identifier("forbidden", LastSpan)}
Calls == [kind : {"Call"}, function : Callees, arguments : SeqsUpTo(ExprTiny, 1), span : Spans]

Returns == [kind : {"Return"}, expression : ExprTiny, span : Spans]
VariableNames == [kind : {"VariableName"}, mutable : BOOLEAN, identifier : IdTiny, span : Spans]
Definitions == [kind : {"Definition"}, declaration_type : {"Let", "Const"}, variable_names : {<<v>> : v \in VariableNames}, parened : BOOLEAN, type_ : {[kind |-> "Type", name |-> "u8"]}, value : ExprTiny, span : {LastSpan}]
AssigneeAccesses == [kind : {"AssigneeArrayIndex"}, index : ExprTiny] \cup [kind : {"AssigneeMember"}, identifier : IdTiny]
Assignees == [kind : {"Assignee"}, identifier : IdTiny, accesses : SeqsUpTo(AssigneeAccesses, 1), span : Spans]
Assigns == [kind : {"Assign"}, operation : {"Assign", "Add"}, assignee : Assignees, value : IdTiny, span : {LastSpan}]
ConsoleFunctions == [kind : {"ConsoleAssert"}, expression : ExprTiny]
Consoles == [kind : {"Console"}, function : ConsoleFunctions, span : Spans]
ExpressionStatements == [kind : {"ExpressionStatement"}, expression : Calls, span : {0}]
\* forbidden(1); and x(1); and return x;
StmtTiny == {s \in ExpressionStatements : s.expression.span = 0 /\ Len(s.expression.arguments) = 1 /\ s.expression.arguments[1].kind = "Value"} \cup {r \in Returns : r.expression.kind = "Identifier" /\ r.span = LastSpan}
Blocks == [kind : {"Block"}, statements : SeqsUpTo(StmtTiny, MaxLen), span : Spans]
BlockTiny == {b \in Blocks : b.span = 0 /\ Len(b.statements) = 1 /\ b.statements[1].kind = "Return"}
Conditionals == [kind : {"Conditional"}, condition : ExprTiny, block : BlockTiny, next : Options(StmtTiny \cup BlockTiny), span : Spans]
Iterations == [kind : {"Iteration"}, variable : IdTiny, type_ : Types, start : IdTiny, stop : ExprTiny, inclusive : BOOLEAN, block : BlockTiny, span : Spans]
Statements == Returns \cup Definitions \cup Assigns \cup Conditionals \cup Iterations \cup Consoles \cup ExpressionStatements \cup Blocks

FunctionInputVariables == [kind : {"FunctionInputVariable"}, identifier : IdTiny, const_ : BOOLEAN, mutable : BOOLEAN, type_ : Types, span : Spans]
SelfKeywords == [kind : {"SelfKeyword"}, span : Spans]
FunctionInputs == FunctionInputVariables \cup SelfKeywords
ImportTrees == [kind : {"ImportTree"}, base : {<<"a">>, <<"a", "b">>}, span : Spans]
ImportStatements == [kind : {"ImportStatement"}, tree : ImportTrees, span : Spans]
Annotations == [kind : {"Annotation"}, span : Spans, name : IdTiny, arguments : {<<>>, <<"arg">>}]
AnnotationMaps == MapsUpTo({"test"}, {a \in Annotations : a.span = 0}, 1)
Functions == [kind : {"Function"}, identifier : IdTiny, annotations : AnnotationMaps, input : SeqsUpTo({i \in FunctionInputs : i.span = LastSpan /\ (i.kind = "FunctionInputVariable" => i.const_ /\ ~i.mutable /\ i.type_.name = "u8")}, 1), const_ : BOOLEAN, output : {[kind |-> "Type", name |-> "field"]}, block : BlockTiny, core_mapping : {None, Some("blake2s")}, span : Spans]
FunctionTiny == {f \in Functions : f.span = LastSpan /\ f.const_ /\ f.core_mapping = None /\ Len(f.annotations) = 0 /\ Len(f.input) = 0}
CircuitMembers == [kind : {"CircuitVariable"}, identifier : IdTiny, type_ : Types] \cup [kind : {"CircuitFunction"}, function : FunctionTiny]
Circuits == [kind : {"Circuit"}, circuit_name : IdTiny, members : SeqsUpTo(CircuitMembers, 1)]
Aliases == [kind : {"Alias"}, name : IdTiny, span : Spans, represents : Types]

\* The keys of the mappings of a Program.
IdKeys == {Identifier("x", 0), Identifier("y", LastSpan)}
PathKeys == {<<"a">>, <<"a", "b">>}
ConstKeys == {<<Identifier("x", 0)>>, <<Identifier("y", 0), Identifier("x", LastSpan)>>}
EmptyProgram(n) == [kind |-> "Program", name |-> n, expected_input |-> <<>>, import_statements |-> <<>>, imports |-> <<>>, aliases |-> <<>>, circuits |-> <<>>, functions |-> <<>>, global_consts |-> <<>>]
ImportMaps == MapsUpTo(PathKeys, {EmptyProgram("lib")}, MaxLen)
AliasMaps == MapsUpTo(IdKeys, {a \in Aliases : a.span = 0 /\ a.represents.name = "u8"}, 1)
CircuitMaps == MapsUpTo(IdKeys, {c \in Circuits : Len(c.members) = 1 /\ c.members[1].kind = "CircuitFunction"}, MaxLen)
FunctionMaps == MapsUpTo(IdKeys, FunctionTiny, MaxLen)
ConstMaps == MapsUpTo(ConstKeys, {d \in Definitions : d.declaration_type = "Const" /\ ~d.parened /\ ~d.variable_names[1].mutable /\ d.value.kind = "Value" /\ d.variable_names[1].span = 0}, MaxLen)

----------------------------------------------------------------------------
(* The default hooks, in the order of the trait *)

reduce_type(s, type_, new, span) == Ret(s, Ok(new))

\* reduce_expression handing back the original in place of the new value.
reduce_expression_keeps_original(s, expression, new) == Ret(s, Ok(expression))
reduce_expression(s, expression, new) == Ret(s, Ok(new))

reduce_identifier(s, identifier) ==
    Ret(s, Ok([kind |-> "Identifier",
               name |-> identifier.name,
               span |-> identifier.span]))

reduce_group_tuple(s, group_tuple) ==
    Ret(s, Ok([kind |-> "GroupTuple",
               x |-> group_tuple.x,
               y |-> group_tuple.y,
               span |-> group_tuple.span]))

reduce_group_value(s, group_value, new) == Ret(s, Ok(new))

reduce_string(s, string, span) ==
    Ret(s, Ok([kind |-> "Value", variant |-> "String",
               string |-> string,
               span |-> span]))

reduce_value(s, value, new) == Ret(s, Ok(new))

\* reduce_binary with its operands the wrong way round.
reduce_binary_swapped(s, binary, left, right, op) ==
    Ret(s, Ok([kind |-> "Binary",
               left |-> BoxNew(right),
               right |-> BoxNew(left),
               op |-> op,
               span |-> binary.span]))
reduce_binary(s, binary, left, right, op) ==
    Ret(s, Ok([kind |-> "Binary",
               left |-> BoxNew(left),
               right |-> BoxNew(right),
               op |-> op,
               span |-> binary.span]))

\* reduce_unary taking its span from the operand.
reduce_unary_span_of_inner(s, unary, inner, op) ==
    Ret(s, Ok([kind |-> "Unary",
               inner |-> BoxNew(inner),
               op |-> op,
               span |-> inner.span]))
reduce_unary(s, unary, inner, op) ==
    Ret(s, Ok([kind |-> "Unary",
               inner |-> BoxNew(inner),
               op |-> op,
               span |-> unary.span]))

reduce_ternary(s, ternary, condition, if_true, if_false) ==
    Ret(s, Ok([kind |-> "Ternary",
               condition |-> BoxNew(condition),
               if_true |-> BoxNew(if_true),
               if_false |-> BoxNew(if_false),
               span |-> ternary.span]))

reduce_cast(s, cast, inner, target_type) ==
    Ret(s, Ok([kind |-> "Cast",
               inner |-> BoxNew(inner),
               target_type |-> target_type,
               span |-> cast.span]))

reduce_array_access(s, array_access, array, index) ==
    Ret(s, Ok([kind |-> "ArrayAccess",
               array |-> BoxNew(array),
               index |-> BoxNew(index),
               span |-> array_access.span]))

\* reduce_array_range_access failing on an open range.
reduce_array_range_access_unwraps(s, array_rage_access, array, left, right) ==
    IF left.some /\ right.some
    THEN Ret(s, Ok([kind |-> "ArrayRangeAccess",
                    array |-> BoxNew(array),
                    left |-> OptionMapBox(left),
                    right |-> OptionMapBox(right),
                    span |-> array_rage_access.span]))
    ELSE Ret(s, Err(array_rage_access.span))
reduce_array_range_access(s, array_rage_access, array, left, right) ==
    Ret(s, Ok([kind |-> "ArrayRangeAccess",
               array |-> BoxNew(array),
               left |-> OptionMapBox(left),
               right |-> OptionMapBox(right),
               span |-> array_rage_access.span]))

reduce_member_access(s, member_access, inner, name, type_) ==
    Ret(s, Ok([kind |-> "MemberAccess",
               inner |-> BoxNew(inner),
               name |-> name,
               span |-> member_access.span,
               type_ |-> type_]))

reduce_tuple_access(s, tuple_access, tuple) ==
    Ret(s, Ok([kind |-> "TupleAccess",
               tuple |-> BoxNew(tuple),
               index |-> tuple_access.index,
               span |-> tuple_access.span]))

reduce_static_access(s, static_access, value, type_, name) ==
    Ret(s, Ok([kind |-> "StaticAccess",
               inner |-> BoxNew(value),
               name |-> name,
               type_ |-> RefCellNew(type_),
               span |-> static_access.span]))

reduce_array_inline(s, array_inline, elements) ==
    Ret(s, Ok([kind |-> "ArrayInline",
               elements |-> elements,
               span |-> array_inline.span]))

reduce_array_init(s, array_init, element) ==
    Ret(s, Ok([kind |-> "ArrayInit",
               element |-> BoxNew(element),
               dimensions |-> array_init.dimensions,
               span |-> array_init.span]))

reduce_tuple_init(s, tuple_init, elements) ==
    Ret(s, Ok([kind |-> "TupleInit",
               elements |-> elements,
               span |-> tuple_init.span]))

reduce_circuit_variable_initializer(s, variable, identifier, expression) ==
    Ret(s, Ok([kind |-> "CircuitVariableInitializer",
               identifier |-> identifier,
               expression |-> expression]))

reduce_circuit_init(s, circuit_init, name, members) ==
    Ret(s, Ok([kind |-> "CircuitInit",
               name |-> name,
               members |-> members,
               span |-> circuit_init.span]))

reduce_call(s, call, function, arguments) ==
    Ret(s, Ok([kind |-> "Call",
               function |-> BoxNew(function),
               arguments |-> arguments,
               span |-> call.span]))

reduce_statement(s, statement, new) == Ret(s, Ok(new))

reduce_return(s, return_statement, expression) ==
    Ret(s, Ok([kind |-> "Return",
               expression |-> expression,
               span |-> return_statement.span]))

reduce_variable_name(s, variable_name, identifier) ==
    Ret(s, Ok([kind |-> "VariableName",
               mutable |-> variable_name.mutable,
               identifier |-> identifier,
               span |-> variable_name.span]))

\* reduce_definition forgetting the parentheses of the original.
reduce_definition_unparened(s, definition, variable_names, type_, value) ==
    Ret(s, Ok([kind |-> "Definition",
               declaration_type |-> definition.declaration_type,
               variable_names |-> variable_names,
               parened |-> FALSE,
               type_ |-> type_,
               value |-> value,
               span |-> definition.span]))
reduce_definition(s, definition, variable_names, type_, value) ==
    Ret(s, Ok([kind |-> "Definition",
               declaration_type |-> definition.declaration_type,
               variable_names |-> variable_names,
               parened |-> definition.parened,
               type_ |-> type_,
               value |-> value,
               span |-> definition.span]))

reduce_assignee_access(s, access, new) == Ret(s, Ok(new))

reduce_assignee(s, assignee, identifier, accesses) ==
    Ret(s, Ok([kind |-> "Assignee",
               identifier |-> identifier,
               accesses |-> accesses,
               span |-> assignee.span]))

reduce_assign(s, assign, assignee, value) ==
    Ret(s, Ok([kind |-> "Assign",
               operation |-> assign.operation,
               assignee |-> assignee,
               value |-> value,
               span |-> assign.span]))

\* reduce_conditional giving a Conditional without else an empty block.
reduce_conditional_empty_else(s, conditional, condition, block, statement) ==
    Ret(s, Ok([kind |-> "Conditional",
               condition |-> condition,
               block |-> block,
               next |-> IF statement.some THEN statement ELSE Some([kind |-> "Block", statements |-> <<>>, span |-> conditional.span]),
               span |-> conditional.span]))
reduce_conditional(s, conditional, condition, block, statement) ==
    Ret(s, Ok([kind |-> "Conditional",
               condition |-> condition,
               block |-> block,
               next |-> OptionMapBox(statement),
               span |-> conditional.span]))

reduce_iteration(s, iteration, variable, type_, start, stop, block) ==
    Ret(s, Ok([kind |-> "Iteration",
               variable |-> variable,
               type_ |-> type_,
               start |-> start,
               stop |-> stop,
               inclusive |-> iteration.inclusive,
               block |-> block,
               span |-> iteration.span]))

reduce_console(s, console, function) ==
    Ret(s, Ok([kind |-> "Console",
               function |-> function,
               span |-> console.span]))

reduce_expression_statement(s, expression_statement, expression) ==
    Ret(s, Ok([kind |-> "ExpressionStatement",
               expression |-> expression,
               span |-> expression_statement.span]))

reduce_block(s, block, statements) ==
    Ret(s, Ok([kind |-> "Block",
               statements |-> statements,
               span |-> block.span]))

reduce_program(s, program, expected_input, import_statements, imports, aliases, circuits, functions, global_consts) ==
    Ret(s, Ok([kind |-> "Program",
               name |-> program.name,
               expected_input |-> expected_input,
               import_statements |-> import_statements,
               imports |-> imports,
               aliases |-> aliases,
               circuits |-> circuits,
               functions |-> functions,
               global_consts |-> global_consts]))

reduce_function_input_variable(s, variable, identifier, type_) ==
    Ret(s, Ok([kind |-> "FunctionInputVariable",
               identifier |-> identifier,
               const_ |-> variable.const_,
               mutable |-> variable.mutable,
               type_ |-> type_,
               span |-> variable.span]))

reduce_function_input(s, input_, new) == Ret(s, Ok(new))

reduce_import_tree(s, tree, new) == Ret(s, Ok(new))

reduce_import_statement(s, import, tree) ==
    Ret(s, Ok([kind |-> "ImportStatement",
               tree |-> tree,
               span |-> import.span]))

\* reduce_import keying the import by the package, without the last segment.
reduce_import_package_key(s, identifier, import) == Ret(s, Ok(<<SubSeq(identifier, 1, 1), import>>))
reduce_import(s, identifier, import) == Ret(s, Ok(<<identifier, import>>))

reduce_circuit_member(s, circuit_member, new) == Ret(s, Ok(new))

\* reduce_circuit toggling the in-circuit bit and not toggling it back.
reduce_circuit_swaps(s, circuit, circuit_name, members) ==
    Ret(swap_in_circuit(s), Ok([kind |-> "Circuit",
                                circuit_name |-> circuit_name,
                                members |-> members]))
reduce_circuit(s, circuit, circuit_name, members) ==
    Ret(s, Ok([kind |-> "Circuit",
               circuit_name |-> circuit_name,
               members |-> members]))

reduce_annotation(s, annotation, name) ==
    Ret(s, Ok([kind |-> "Annotation",
               span |-> annotation.span,
               name |-> name,
               arguments |-> annotation.arguments]))

reduce_function(s, function, identifier, annotations, input_, const_, output_, block) ==
    Ret(s, Ok([kind |-> "Function",
               identifier |-> identifier,
               annotations |-> annotations,
               input |-> input_,
               const_ |-> const_,
               output |-> output_,
               block |-> block,
               core_mapping |-> function.core_mapping,
               span |-> function.span]))

----------------------------------------------------------------------------
(* The trait's table of default hooks: the hook named h, called on the     *)
(* original node with the arguments a.                                     *)

DefaultHook(s, h, orig, a) ==
    CASE h = "reduce_type" -> reduce_type(s, orig, a.new, a.span)
      [] h = "reduce_expression" -> reduce_expression(s, orig, a.new)
      [] h = "reduce_identifier" -> reduce_identifier(s, orig)
      [] h = "reduce_group_tuple" -> reduce_group_tuple(s, orig)
      [] h = "reduce_group_value" -> reduce_group_value(s, orig, a.new)
      [] h = "reduce_string" -> reduce_string(s, a.string, a.span)
      [] h = "reduce_value" -> reduce_value(s, orig, a.new)
      [] h = "reduce_binary" -> reduce_binary(s, orig, a.left, a.right, a.op)
      [] h = "reduce_unary" -> reduce_unary(s, orig, a.inner, a.op)
      [] h = "reduce_ternary" -> reduce_ternary(s, orig, a.condition, a.if_true, a.if_false)
      [] h = "reduce_cast" -> reduce_cast(s, orig, a.inner, a.target_type)
      [] h = "reduce_array_access" -> reduce_array_access(s, orig, a.array, a.index)
      [] h = "reduce_array_range_access" -> reduce_array_range_access(s, orig, a.array, a.left, a.right)
      [] h = "reduce_member_access" -> reduce_member_access(s, orig, a.inner, a.name, a.type_)
      [] h = "reduce_tuple_access" -> reduce_tuple_access(s, orig, a.tuple)
      [] h = "reduce_static_access" -> reduce_static_access(s, orig, a.value, a.type_, a.name)
      [] h = "reduce_array_inline" -> reduce_array_inline(s, orig, a.elements)
      [] h = "reduce_array_init" -> reduce_array_init(s, orig, a.element)
      [] h = "reduce_tuple_init" -> reduce_tuple_init(s, orig, a.elements)
      [] h = "reduce_circuit_variable_initializer" -> reduce_circuit_variable_initializer(s, orig, a.identifier, a.expression)
      [] h = "reduce_circuit_init" -> reduce_circuit_init(s, orig, a.name, a.members)
      [] h = "reduce_call" -> reduce_call(s, orig, a.function, a.arguments)
      [] h = "reduce_statement" -> reduce_statement(s, orig, a.new)
      [] h = "reduce_return" -> reduce_return(s, orig, a.expression)
      [] h = "reduce_variable_name" -> reduce_variable_name(s, orig, a.identifier)
      [] h = "reduce_definition" -> reduce_definition(s, orig, a.variable_names, a.type_, a.value)
      [] h = "reduce_assignee_access" -> reduce_assignee_access(s, orig, a.new)
      [] h = "reduce_assignee" -> reduce_assignee(s, orig, a.identifier, a.accesses)
      [] h = "reduce_assign" -> reduce_assign(s, orig, a.assignee, a.value)
      [] h = "reduce_conditional" -> reduce_conditional(s, orig, a.condition, a.block, a.statement)
      [] h = "reduce_iteration" -> reduce_iteration(s, orig, a.variable, a.type_, a.start, a.stop, a.block)
      [] h = "reduce_console" -> reduce_console(s, orig, a.function)
      [] h = "reduce_expression_statement" -> reduce_expression_statement(s, orig, a.expression)
      [] h = "reduce_block" -> reduce_block(s, orig, a.statements)
      [] h = "reduce_program" -> reduce_program(s, orig, a.expected_input, a.import_statements, a.imports, a.aliases, a.circuits, a.functions, a.global_consts)
      [] h = "reduce_function_input_variable" -> reduce_function_input_variable(s, orig, a.identifier, a.type_)
      [] h = "reduce_function_input" -> reduce_function_input(s, orig, a.new)
      [] h = "reduce_import_tree" -> reduce_import_tree(s, orig, a.new)
      [] h = "reduce_import_statement" -> reduce_import_statement(s, orig, a.tree)
      [] h = "reduce_import" -> reduce_import(s, a.identifier, a.import)
      [] h = "reduce_circuit_member" -> reduce_circuit_member(s, orig, a.new)
      [] h = "reduce_circuit" -> reduce_circuit(s, orig, a.circuit_name, a.members)
      [] h = "reduce_annotation" -> reduce_annotation(s, orig, a.name)
      [] h = "reduce_function" -> reduce_function(s, orig, a.identifier, a.annotations, a.input, a.const_, a.output, a.block)

----------------------------------------------------------------------------
(* A pass calling one hook of an all-default implementation: the original  *)
(* node and the children it supplies, which need not be the original's.    *)

BlockPool == {b \in Blocks : Len(b.statements) <= 1}
HookCalls ==
    [hook : {"reduce_type"}, orig : Types, args : [new : Types, span : Spans]]
    \cup [hook : {"reduce_expression"}, orig : ExprTiny \cup Binaries, args : [new : ExprPool \cup Binaries]]
    \cup [hook : {"reduce_identifier"}, orig : Identifiers, args : {<<>>}]
    \cup [hook : {"reduce_group_tuple"}, orig : GroupTuples, args : {<<>>}]
    \cup [hook : {"reduce_group_value"}, orig : GroupValues, args : [new : GroupValues]]
    \cup {[hook |-> "reduce_string", orig |-> v, args |-> [string |-> v.string, span |-> v.span]] : v \in StringValues}
    \cup [hook : {"reduce_value"}, orig : Values, args : [new : Values \cup IdPool]]
    \cup [hook : {"reduce_binary"}, orig : Binaries, args : [left : ExprPool, right : ExprPool, op : {"Add", "Mul"}]]
    \cup [hook : {"reduce_unary"}, orig : Unaries, args : [inner : ExprPool, op : {"Negate", "Not"}]]
    \cup [hook : {"reduce_ternary"}, orig : Ternaries, args : [condition : ExprPool, if_true : ExprPool, if_false : ExprPool]]
    \cup [hook : {"reduce_cast"}, orig : Casts, args : [inner : ExprPool, target_type : Types]]
    \cup [hook : {"reduce_array_access"}, orig : ArrayAccesses, args : [array : ExprPool, index : ExprPool]]
    \cup [hook : {"reduce_array_range_access"}, orig : ArrayRangeAccesses, args : [array : IdPool, left : Options(ExprPool), right : Options(ExprPool)]]
    \cup [hook : {"reduce_member_access"}, orig : MemberAccesses, args : [inner : ExprPool, name : IdPool, type_ : Options(Types)]]
    \cup [hook : {"reduce_tuple_access"}, orig : TupleAccesses, args : [tuple : ExprPool]]
    \cup [hook : {"reduce_static_access"}, orig : StaticAccesses, args : [value : ExprPool, type_ : Types, name : IdPool]]
    \cup [hook : {"reduce_array_inline"}, orig : ArrayInlines, args : [elements : SeqsUpTo(SpreadOrExpressions, MaxLen)]]
    \cup [hook : {"reduce_array_init"}, orig : ArrayInits, args : [element : ExprPool]]
    \cup [hook : {"reduce_tuple_init"}, orig : TupleInits, args : [elements : SeqsUpTo(ExprPool, 1)]]
    \cup [hook : {"reduce_circuit_variable_initializer"}, orig : CircuitVariableInitializers, args : [identifier : IdPool, expression : Options(ExprPool)]]
    \cup [hook : {"reduce_circuit_init"}, orig : CircuitInits, args : [name : IdPool, members : SeqsUpTo(CircuitVariableInitializers, 1)]]
    \cup [hook : {"reduce_call"}, orig : Calls, args : [function : ExprPool, arguments : SeqsUpTo(ExprPool, 1)]]
    \cup [hook : {"reduce_statement"}, orig : Returns \cup BlockPool, args : [new : Returns \cup BlockPool]]
    \cup [hook : {"reduce_return"}, orig : Returns, args : [expression : ExprPool]]
    \cup [hook : {"reduce_variable_name"}, orig : VariableNames, args : [identifier : IdPool]]
    \cup [hook : {"reduce_definition"}, orig : Definitions, args : [variable_names : SeqsUpTo({v \in VariableNames : v.span = 0}, 1), type_ : Types, value : ExprPool]]
    \cup [hook : {"reduce_assignee_access"}, orig : AssigneeAccesses, args : [new : AssigneeAccesses]]
    \cup [hook : {"reduce_assignee"}, orig : Assignees, args : [identifier : IdPool, accesses : SeqsUpTo(AssigneeAccesses, 1)]]
    \cup [hook : {"reduce_assign"}, orig : Assigns, args : [assignee : {a \in Assignees : Len(a.accesses) = 0}, value : ExprPool]]
    \cup [hook : {"reduce_conditional"}, orig : Conditionals, args : [condition : IdPool, block : BlockPool, statement : Options(StmtTiny \cup BlockTiny)]]
    \cup [hook : {"reduce_iteration"}, orig : Iterations, args : [variable : IdPool, type_ : Types, start : IdPool, stop : IntValues, block : BlockPool]]
    \cup [hook : {"reduce_console"}, orig : Consoles, args : [function : [kind : {"ConsoleAssert"}, expression : ExprPool]]]
    \cup [hook : {"reduce_expression_statement"}, orig : ExpressionStatements, args : [expression : ExprPool]]
    \cup [hook : {"reduce_block"}, orig : Blocks, args : [statements : SeqsUpTo(StmtTiny, MaxLen)]]
    \cup [hook : {"reduce_program"}, orig : {EmptyProgram("main"), EmptyProgram("lib")}, args : [expected_input : SeqsUpTo(SelfKeywords, 1), import_statements : SeqsUpTo({i \in ImportStatements : i.span = 0 /\ i.tree.span = 0}, 1), imports : ImportMaps, aliases : AliasMaps, circuits : CircuitMaps, functions : FunctionMaps, global_consts : ConstMaps]]
    \cup [hook : {"reduce_function_input_variable"}, orig : FunctionInputVariables, args : [identifier : IdPool, type_ : Types]]
    \cup [hook : {"reduce_function_input"}, orig : FunctionInputs, args : [new : FunctionInputs]]
    \cup [hook : {"reduce_import_tree"}, orig : ImportTrees, args : [new : ImportTrees]]
    \cup [hook : {"reduce_import_statement"}, orig : ImportStatements, args : [tree : ImportTrees]]
    \cup [hook : {"reduce_import"}, orig : {NoNode}, args : [identifier : PathKeys, import : {EmptyProgram("main"), EmptyProgram("lib")}]]
    \cup [hook : {"reduce_circuit_member"}, orig : CircuitMembers, args : [new : CircuitMembers]]
    \cup [hook : {"reduce_circuit"}, orig : Circuits, args : [circuit_name : IdPool, members : SeqsUpTo(CircuitMembers, 1)]]
    \cup [hook : {"reduce_annotation"}, orig : Annotations, args : [name : IdPool]]
    \cup [hook : {"reduce_function"}, orig : {f \in Functions : Len(f.annotations) = 0 /\ Len(f.input) = 0}, args : [identifier : IdPool, annotations : AnnotationMaps, input : SeqsUpTo(SelfKeywords, 1), const_ : BOOLEAN, output : Types, block : BlockTiny]]

Idle == [hook |-> "none"]
Reducers == [in_circuit : BOOLEAN]

InitHooks ==
    /\ self \in Reducers
    /\ self0 = self
    /\ hookCall = Idle
    /\ impl = "default"
    /\ input = NoNode
    /\ stack = <<>>
    /\ status = "idle"
    /\ output = NoResult
    /\ log = <<>>

\* The pass calls one hook and keeps what it returns.
CallHook ==
    /\ hookCall = Idle
    /\ \E c \in HookCalls :
         LET ret == DefaultHook(self, c.hook, c.orig, c.args) IN
         /\ hookCall' = [hook |-> c.hook, orig |-> c.orig, args |-> c.args, result |-> ret.result]
         /\ self' = ret.self
    /\ UNCHANGED <<self0, impl, input, stack, status, output, log>>

SpecHooks == InitHooks /\ [][CallHook]_vars

----------------------------------------------------------------------------
(* The hooks by what they build *)

\* The hooks that pass an already-built value through.
SummaryHooks == {"reduce_type", "reduce_expression", "reduce_group_value", "reduce_value", "reduce_statement", "reduce_assignee_access", "reduce_function_input", "reduce_import_tree", "reduce_circuit_member"}
\* The hooks whose node kind has no span field.
SpanlessHooks == {"reduce_circuit_variable_initializer", "reduce_circuit", "reduce_program", "reduce_import"}
AllHooks == {c.hook : c \in HookCalls}
SpecificHooks == AllHooks \ SummaryHooks
SpannedHooks == SpecificHooks \ SpanlessHooks

Called == hookCall # Idle
HasSpan(n) == "span" \in DOMAIN n
\* The span a specific hook is handed with the original.
OrigSpan(c) == IF c.hook = "reduce_string" THEN c.args.span ELSE c.orig.span

Same(S) == {<<f, f>> : f \in S}
\* <<parameter, field>>: the fields a specific hook is handed, by parameter.
SuppliedFields(h) ==
    CASE h \in {"reduce_identifier", "reduce_group_tuple", "reduce_import"} -> {}
      [] h = "reduce_string" -> Same({"string", "span"})
      [] h = "reduce_binary" -> Same({"left", "right", "op"})
      [] h = "reduce_unary" -> Same({"inner", "op"})
      [] h = "reduce_ternary" -> Same({"condition", "if_true", "if_false"})
      [] h = "reduce_cast" -> Same({"inner", "target_type"})
      [] h = "reduce_array_access" -> Same({"array", "index"})
      [] h = "reduce_array_range_access" -> Same({"array", "left", "right"})
      [] h = "reduce_member_access" -> Same({"inner", "name", "type_"})
      [] h = "reduce_tuple_access" -> Same({"tuple"})
      [] h = "reduce_static_access" -> {<<"value", "inner">>, <<"name", "name">>}
      [] h = "reduce_array_inline" -> Same({"elements"})
      [] h = "reduce_array_init" -> Same({"element"})
      [] h = "reduce_tuple_init" -> Same({"elements"})
      [] h = "reduce_circuit_variable_initializer" -> Same({"identifier", "expression"})
      [] h = "reduce_circuit_init" -> Same({"name", "members"})
      [] h = "reduce_call" -> Same({"function", "arguments"})
      [] h = "reduce_return" -> Same({"expression"})
      [] h = "reduce_variable_name" -> Same({"identifier"})
      [] h = "reduce_definition" -> Same({"variable_names", "type_", "value"})
      [] h = "reduce_assignee" -> Same({"identifier", "accesses"})
      [] h = "reduce_assign" -> Same({"assignee", "value"})
      [] h = "reduce_conditional" -> Same({"condition", "block"}) \cup {<<"statement", "next">>}
      [] h = "reduce_iteration" -> Same({"variable", "type_", "start", "stop", "block"})
      [] h = "reduce_console" -> Same({"function"})
      [] h = "reduce_expression_statement" -> Same({"expression"})
      [] h = "reduce_block" -> Same({"statements"})
      [] h = "reduce_program" -> Same({"expected_input", "import_statements", "imports", "aliases", "circuits", "functions", "global_consts"})
      [] h = "reduce_function_input_variable" -> Same({"identifier", "type_"})
      [] h = "reduce_import_statement" -> Same({"tree"})
      [] h = "reduce_circuit" -> Same({"circuit_name", "members"})
      [] h = "reduce_annotation" -> Same({"name"})
      [] h = "reduce_function" -> Same({"identifier", "annotations", "input", "output", "block"})
\* The non-recursive fields of the original that are not its span.
IdentityFields(h) ==
    CASE h = "reduce_identifier" -> {"name"}
      [] h = "reduce_group_tuple" -> {"x", "y"}
      [] h = "reduce_tuple_access" -> {"index"}
      [] h = "reduce_array_init" -> {"dimensions"}
      [] h = "reduce_variable_name" -> {"mutable"}
      [] h = "reduce_definition" -> {"declaration_type", "parened"}
      [] h = "reduce_assign" -> {"operation"}
      [] h = "reduce_iteration" -> {"inclusive"}
      [] h = "reduce_program" -> {"name"}
      [] h = "reduce_function_input_variable" -> {"const_", "mutable"}
      [] h = "reduce_annotation" -> {"arguments"}
      [] h = "reduce_function" -> {"core_mapping"}
      [] OTHER -> {}
TagFields(h) == IF h = "reduce_string" THEN {"kind", "variant"} ELSE {"kind"}
SpanField(h) == IF h \in SpannedHooks THEN {"span"} ELSE {}

\* The node v is assembled from the supplied fields and the fields copied
\* from the original, and from nothing else.
Reassembled(c, v, supplied, copied) ==
    /\ \A p \in supplied : v[p[2]] = c.args[p[1]]
    /\ \A f \in copied \ {p[2] : p \in supplied} : v[f] = c.orig[f]
    /\ c.hook = "reduce_static_access" => v.type_ = [cell |-> c.args.type_]
    /\ DOMAIN v = TagFields(c.hook) \cup {p[2] : p \in supplied} \cup copied \cup (IF c.hook = "reduce_static_access" THEN {"type_"} ELSE {})

----------------------------------------------------------------------------
(* The traversal driver: a post-order walk.  A task is a node to reduce,   *)
(* the role it is reduced in ("expr": an Expression, "stmt": a Statement,  *)
(* "plain": the node kind itself) and the span its enclosing node hands to *)
(* reduce_type.                                                            *)

Task(n, r, sp) == [node |-> n, role |-> r, span |-> sp]
E(n) == Task(n, "expr", 0)
S(n) == Task(n, "stmt", 0)
P(n) == Task(n, "plain", 0)
Ty(n, sp) == Task(n, "plain", sp)
Tasks(q, r) == [i \in 1 .. Len(q) |-> Task(q[i], r, 0)]
OptTask(o, r) == IF o.some THEN <<Task(o.v, r, 0)>> ELSE <<>>
\* The values of a mapping, in its order.
MapValues(m) == [i \in 1 .. Len(m) |-> m[i][2]]
\* The entries of Program.imports: a path and the Program imported.
ImportEntries(m) == [i \in 1 .. Len(m) |-> [kind |-> "ImportEntry", identifier |-> m[i][1], import |-> m[i][2]]]

\* The children of a node, in declaration order.
Children(n) ==
    CASE n.kind = "Value" -> IF n.variant = "Group" THEN <<P(n.group)>> ELSE <<>>
      [] n.kind = "Binary" -> <<E(n.left), E(n.right)>>
      [] n.kind = "Unary" -> <<E(n.inner)>>
      [] n.kind = "Ternary" -> <<E(n.condition), E(n.if_true), E(n.if_false)>>
      [] n.kind = "Cast" -> <<E(n.inner), Ty(n.target_type, n.span)>>
      [] n.kind = "ArrayAccess" -> <<E(n.array), E(n.index)>>
      [] n.kind = "ArrayRangeAccess" -> <<E(n.array)>> \o OptTask(n.left, "expr") \o OptTask(n.right, "expr")
      [] n.kind = "MemberAccess" -> <<E(n.inner), P(n.name)>> \o (IF n.type_.some THEN <<Ty(n.type_.v, n.span)>> ELSE <<>>)
      [] n.kind = "TupleAccess" -> <<E(n.tuple)>>
      [] n.kind = "StaticAccess" -> <<E(n.inner), Ty(n.type_.cell, n.span), P(n.name)>>
      [] n.kind = "ArrayInline" -> Tasks(n.elements, "plain")
      [] n.kind = "SpreadOrExpression" -> <<E(n.expression)>>
      [] n.kind = "ArrayInit" -> <<E(n.element)>>
      [] n.kind = "TupleInit" -> Tasks(n.elements, "expr")
      [] n.kind = "CircuitVariableInitializer" -> <<P(n.identifier)>> \o OptTask(n.expression, "expr")
      [] n.kind = "CircuitInit" -> <<P(n.name)>> \o Tasks(n.members, "plain")
      [] n.kind = "Call" -> <<E(n.function)>> \o Tasks(n.arguments, "expr")
      [] n.kind = "Return" -> <<E(n.expression)>>
      [] n.kind = "VariableName" -> <<P(n.identifier)>>
      [] n.kind = "Definition" -> Tasks(n.variable_names, "plain") \o <<Ty(n.type_, n.span), E(n.value)>>
      [] n.kind = "AssigneeArrayIndex" -> <<E(n.index)>>
      [] n.kind = "AssigneeMember" -> <<P(n.identifier)>>
      [] n.kind = "Assignee" -> <<P(n.identifier)>> \o Tasks(n.accesses, "plain")
      [] n.kind = "Assign" -> <<P(n.assignee), E(n.value)>>
      [] n.kind = "Conditional" -> <<E(n.condition), P(n.block)>> \o OptTask(n.next, "stmt")
      [] n.kind = "Iteration" -> <<P(n.variable), Ty(n.type_, n.span), E(n.start), E(n.stop), P(n.block)>>
      [] n.kind = "ConsoleAssert" -> <<E(n.expression)>>
      [] n.kind = "Console" -> <<P(n.function)>>
      [] n.kind = "ExpressionStatement" -> <<E(n.expression)>>
      [] n.kind = "Block" -> Tasks(n.statements, "stmt")
      [] n.kind = "FunctionInputVariable" -> <<P(n.identifier), Ty(n.type_, n.span)>>
      [] n.kind = "ImportStatement" -> <<P(n.tree)>>
      [] n.kind = "ImportEntry" -> <<P(n.import)>>
      [] n.kind = "Annotation" -> <<P(n.name)>>
      [] n.kind = "CircuitVariable" -> <<P(n.identifier), Ty(n.type_, n.identifier.span)>>
      [] n.kind = "CircuitFunction" -> <<P(n.function)>>
      [] n.kind = "Circuit" -> <<P(n.circuit_name)>> \o Tasks(n.members, "plain")
      [] n.kind = "Function" -> <<P(n.identifier)>> \o Tasks(MapValues(n.annotations), "plain") \o Tasks(n.input, "plain") \o <<Ty(n.output, n.span), P(n.block)>>
      [] n.kind = "Program" -> Tasks(n.expected_input, "plain") \o Tasks(n.import_statements, "plain") \o Tasks(ImportEntries(n.imports), "plain") \o Tasks(MapValues(n.circuits), "plain") \o Tasks(MapValues(n.functions), "plain") \o Tasks(MapValues(n.global_consts), "plain")
      [] OTHER -> <<>>

\* The hooks of a node kind: its own, then the summary hooks of the enums
\* that wrap it.
KindHooks(n) ==
    CASE n.kind = "Type" -> <<"reduce_type">>
      [] n.kind = "Identifier" -> <<"reduce_identifier">>
      [] n.kind = "GroupTuple" -> <<"reduce_group_tuple", "reduce_group_value">>
      [] n.kind = "GroupSingle" -> <<"reduce_group_value">>
      [] n.kind = "Value" -> IF n.variant = "String" THEN <<"reduce_string", "reduce_value">> ELSE <<"reduce_value">>
      [] n.kind = "Binary" -> <<"reduce_binary">>
      [] n.kind = "Unary" -> <<"reduce_unary">>
      [] n.kind = "Ternary" -> <<"reduce_ternary">>
      [] n.kind = "Cast" -> <<"reduce_cast">>
      [] n.kind = "ArrayAccess" -> <<"reduce_array_access">>
      [] n.kind = "ArrayRangeAccess" -> <<"reduce_array_range_access">>
      [] n.kind = "MemberAccess" -> <<"reduce_member_access">>
      [] n.kind = "TupleAccess" -> <<"reduce_tuple_access">>
      [] n.kind = "StaticAccess" -> <<"reduce_static_access">>
      [] n.kind = "ArrayInline" -> <<"reduce_array_inline">>
      [] n.kind = "ArrayInit" -> <<"reduce_array_init">>
      [] n.kind = "TupleInit" -> <<"reduce_tuple_init">>
      [] n.kind = "CircuitVariableInitializer" -> <<"reduce_circuit_variable_initializer">>
      [] n.kind = "CircuitInit" -> <<"reduce_circuit_init">>
      [] n.kind = "Call" -> <<"reduce_call">>
      [] n.kind = "Return" -> <<"reduce_return">>
      [] n.kind = "VariableName" -> <<"reduce_variable_name">>
      [] n.kind = "Definition" -> <<"reduce_definition">>
      [] n.kind \in {"AssigneeArrayIndex", "AssigneeMember"} -> <<"reduce_assignee_access">>
      [] n.kind = "Assignee" -> <<"reduce_assignee">>
      [] n.kind = "Assign" -> <<"reduce_assign">>
      [] n.kind = "Conditional" -> <<"reduce_conditional">>
      [] n.kind = "Iteration" -> <<"reduce_iteration">>
      [] n.kind = "Console" -> <<"reduce_console">>
      [] n.kind = "ExpressionStatement" -> <<"reduce_expression_statement">>
      [] n.kind = "Block" -> <<"reduce_block">>
      [] n.kind = "Program" -> <<"reduce_program">>
      [] n.kind = "FunctionInputVariable" -> <<"reduce_function_input_variable", "reduce_function_input">>
      [] n.kind = "SelfKeyword" -> <<"reduce_function_input">>
      [] n.kind = "ImportTree" -> <<"reduce_import_tree">>
      [] n.kind = "ImportStatement" -> <<"reduce_import_statement">>
      [] n.kind = "ImportEntry" -> <<"reduce_import">>
      [] n.kind \in {"CircuitVariable", "CircuitFunction"} -> <<"reduce_circuit_member">>
      [] n.kind = "Circuit" -> <<"reduce_circuit">>
      [] n.kind = "Annotation" -> <<"reduce_annotation">>
      [] n.kind = "Function" -> <<"reduce_function">>
      [] OTHER -> <<>>

Stages(t) ==
    KindHooks(t.node) \o (CASE t.role = "expr" -> <<"reduce_expression">>
                            [] t.role = "stmt" -> <<"reduce_statement">>
                            [] OTHER -> <<>>)

\* The node with its children replaced by the reduced ones: what the
\* summary hook of a node kind without a hook of its own is handed.
Rebuilt(n, kids) ==
    CASE n.kind = "Value" /\ n.variant = "Group" -> [n EXCEPT !.group = kids[1]]
      [] n.kind = "SpreadOrExpression" -> [n EXCEPT !.expression = kids[1]]
      [] n.kind = "ConsoleAssert" -> [n EXCEPT !.expression = kids[1]]
      [] n.kind = "AssigneeArrayIndex" -> [n EXCEPT !.index = kids[1]]
      [] n.kind = "AssigneeMember" -> [n EXCEPT !.identifier = kids[1]]
      [] n.kind = "CircuitVariable" -> [n EXCEPT !.identifier = kids[1], !.type_ = kids[2]]
      [] n.kind = "CircuitFunction" -> [n EXCEPT !.function = kids[1]]
      [] OTHER -> n

\* IndexMap::insert: a present key keeps its place and takes the value.
IndexMapInsert(m, k, v) ==
    IF \E i \in 1 .. Len(m) : m[i][1] = k
    THEN [i \in 1 .. Len(m) |-> IF m[i][1] = k THEN <<k, v>> ELSE m[i]]
    ELSE Append(m, <<k, v>>)
RECURSIVE Collect(_)
\* The IndexMap the entries are inserted into, one after the other.
Collect(entries) ==
    IF entries = <<>> THEN <<>>
    ELSE LET last == entries[Len(entries)] IN
         IndexMapInsert(Collect(SubSeq(entries, 1, Len(entries) - 1)), last[1], last[2])
\* The keys of the original mapping with the reduced values.
Rekeyed(m, values) == Collect([i \in 1 .. Len(m) |-> <<m[i][1], values[i]>>])
Slice(q, from, count) == SubSeq(q, from + 1, from + count)
SomeIf(present, v) == IF present THEN Some(v) ELSE None

\* The arguments of hook h on node n: its reduced children kids, in place,
\* or for a summary hook the value cur built so far.
HookArgs(h, t, kids, cur) ==
    LET n == t.node IN
    CASE h = "reduce_type" -> [new |-> cur, span |-> t.span]
      [] h \in SummaryHooks \ {"reduce_type"} -> [new |-> cur]
      [] h \in {"reduce_identifier", "reduce_group_tuple"} -> <<>>
      [] h = "reduce_string" -> [string |-> n.string, span |-> n.span]
      [] h = "reduce_binary" -> [left |-> kids[1], right |-> kids[2], op |-> n.op]
      [] h = "reduce_unary" -> [inner |-> kids[1], op |-> n.op]
      [] h = "reduce_ternary" -> [condition |-> kids[1], if_true |-> kids[2], if_false |-> kids[3]]
      [] h = "reduce_cast" -> [inner |-> kids[1], target_type |-> kids[2]]
      [] h = "reduce_array_access" -> [array |-> kids[1], index |-> kids[2]]
      [] h = "reduce_array_range_access" -> [array |-> kids[1], left |-> SomeIf(n.left.some, kids[2]), right |-> SomeIf(n.right.some, kids[Len(kids)])]
      [] h = "reduce_member_access" -> [inner |-> kids[1], name |-> kids[2], type_ |-> SomeIf(n.type_.some, kids[Len(kids)])]
      [] h = "reduce_tuple_access" -> [tuple |-> kids[1]]
      [] h = "reduce_static_access" -> [value |-> kids[1], type_ |-> kids[2], name |-> kids[3]]
      [] h = "reduce_array_inline" -> [elements |-> kids]
      [] h = "reduce_array_init" -> [element |-> kids[1]]
      [] h = "reduce_tuple_init" -> [elements |-> kids]
      [] h = "reduce_circuit_variable_initializer" -> [identifier |-> kids[1], expression |-> SomeIf(n.expression.some, kids[Len(kids)])]
      [] h = "reduce_circuit_init" -> [name |-> kids[1], members |-> Tail(kids)]
      [] h = "reduce_call" -> [function |-> kids[1], arguments |-> Tail(kids)]
      [] h = "reduce_return" -> [expression |-> kids[1]]
      [] h = "reduce_variable_name" -> [identifier |-> kids[1]]
      [] h = "reduce_definition" -> [variable_names |-> Slice(kids, 0, Len(n.variable_names)), type_ |-> kids[Len(kids) - 1], value |-> kids[Len(kids)]]
      [] h = "reduce_assignee" -> [identifier |-> kids[1], accesses |-> Tail(kids)]
      [] h = "reduce_assign" -> [assignee |-> kids[1], value |-> kids[2]]
      [] h = "reduce_conditional" -> [condition |-> kids[1], block |-> kids[2], statement |-> SomeIf(n.next.some, kids[Len(kids)])]
      [] h = "reduce_iteration" -> [variable |-> kids[1], type_ |-> kids[2], start |-> kids[3], stop |-> kids[4], block |-> kids[5]]
      [] h = "reduce_console" -> [function |-> kids[1]]
      [] h = "reduce_expression_statement" -> [expression |-> kids[1]]
      [] h = "reduce_block" -> [statements |-> kids]
      [] h = "reduce_function_input_variable" -> [identifier |-> kids[1], type_ |-> kids[2]]
      [] h = "reduce_import_statement" -> [tree |-> kids[1]]
      [] h = "reduce_import" -> [identifier |-> n.identifier, import |-> kids[1]]
      [] h = "reduce_circuit" -> [circuit_name |-> kids[1], members |-> Tail(kids)]
      [] h = "reduce_annotation" -> [name |-> kids[1]]
      [] h = "reduce_function" ->
            LET a == Len(n.annotations)
                i == Len(n.input)
            IN [identifier |-> kids[1],
                annotations |-> Rekeyed(n.annotations, Slice(kids, 1, a)),
                input |-> Slice(kids, 1 + a, i),
                const_ |-> n.const_,
                output |-> kids[Len(kids) - 1],
                block |-> kids[Len(kids)]]
      [] h = "reduce_program" ->
            LET a == Len(n.expected_input)
                b == Len(n.import_statements)
                c == Len(n.imports)
                d == Len(n.circuits)
                e == Len(n.functions)
                g == Len(n.global_consts)
            IN [expected_input |-> Slice(kids, 0, a),
                import_statements |-> Slice(kids, a, b),
                imports |-> Collect(Slice(kids, a + b, c)),
                aliases |-> n.aliases,
                circuits |-> Rekeyed(n.circuits, Slice(kids, a + b + c, d)),
                functions |-> Rekeyed(n.functions, Slice(kids, a + b + c + d, e)),
                global_consts |-> Rekeyed(n.global_consts, Slice(kids, a + b + c + d + e, g))]

\* The overrides of the sample passes.  "rename" overrides reduce_identifier:
\* x becomes y at the same span.  "forbid" overrides reduce_call: a call of
\* the identifier forbidden fails with the span of the call.
Impls == {"default", "rename", "forbid"}
rename_reduce_identifier(s, identifier) ==
    Ret(s, Ok([kind |-> "Identifier",
               name |-> IF identifier.name = "x" THEN "y" ELSE identifier.name,
               span |-> identifier.span]))
forbid_reduce_call(s, call, function, arguments) ==
    IF function.kind = "Identifier" /\ function.name = "forbidden"
    THEN Ret(s, Err(call.span))
    ELSE reduce_call(s, call, function, arguments)

\* Hook h of the implementation i.
Hook(i, s, h, orig, a) ==
    CASE i = "rename" /\ h = "reduce_identifier" -> rename_reduce_identifier(s, orig)
      [] i = "forbid" /\ h = "reduce_call" -> forbid_reduce_call(s, orig, a.function, a.arguments)
      [] OTHER -> DefaultHook(s, h, orig, a)

----------------------------------------------------------------------------
(* The trees handed to the traversal *)

ForbiddenCall == [kind |-> "Call", function |-> Identifier("forbidden", LastSpan), arguments |-> <<IntValue(LastSpan)>>, span |-> 0]
DeepLeaves == {Identifier("x", 0), IntValue(LastSpan), ForbiddenCall}
RECURSIVE DeepExprs(_)
\* The binary expressions nested to depth d along one operand, a product
\* at the odd depths and a sum at the even ones: x + (x * x) at depth 2.
DeepExprs(d) ==
    IF d = 0 THEN DeepLeaves
    ELSE LET sub == DeepExprs(d - 1) IN
         sub \cup {[kind |-> "Binary", left |-> p[1], right |-> p[2], op |-> IF d % 2 = 1 THEN "Mul" ELSE "Add", span |-> LastSpan] :
                      p \in (sub \X DeepLeaves) \cup (DeepLeaves \X sub)}

Expressions == Identifiers \cup Values \cup Binaries \cup Unaries \cup Ternaries \cup Casts \cup ArrayAccesses \cup ArrayRangeAccesses \cup MemberAccesses \cup TupleAccesses \cup StaticAccesses \cup ArrayInlines \cup ArrayInits \cup TupleInits \cup CircuitInits \cup Calls \cup DeepExprs(MaxDepth)

FullProgram ==
    [kind |-> "Program",
     name |-> "main",
     expected_input |-> <<CHOOSE i \in FunctionInputVariables : i.span = LastSpan /\ i.const_ /\ ~i.mutable /\ i.type_.name = "field", [kind |-> "SelfKeyword", span |-> 0]>>,
     import_statements |-> <<CHOOSE i \in ImportStatements : i.span = 0 /\ i.tree.span = LastSpan /\ Len(i.tree.base) = 2>>,
     imports |-> CHOOSE m \in ImportMaps : Len(m) = 1 /\ m[1][1] = <<"a", "b">>,
     aliases |-> CHOOSE m \in AliasMaps : Len(m) = 1 /\ m[1][1].name = "y",
     circuits |-> CHOOSE m \in CircuitMaps : Len(m) = 1 /\ m[1][1].name = "x",
     functions |-> CHOOSE m \in FunctionMaps : Len(m) = 1 /\ m[1][1].name = "y",
     global_consts |-> CHOOSE m \in ConstMaps : Len(m) = 1 /\ Len(m[1][1]) = 2]
\* The full program with one of its mappings varied, or with the body of
\* its function varied.
Programs ==
    {EmptyProgram("main"), FullProgram}
    \cup {[FullProgram EXCEPT !.imports = m] : m \in ImportMaps}
    \cup {[FullProgram EXCEPT !.circuits = m] : m \in MapsUpTo(IdKeys, {c \in Circuits : Len(c.members) = 1}, 1) \cup CircuitMaps}
    \cup {[FullProgram EXCEPT !.functions = m] : m \in FunctionMaps}
    \cup {[FullProgram EXCEPT !.functions = <<<<Identifier("y", LastSpan), [f EXCEPT !.block = b]>>>>] : f \in FunctionTiny, b \in Blocks}
    \cup {[FullProgram EXCEPT !.global_consts = m] : m \in ConstMaps}

Roots == {E(n) : n \in Expressions} \cup {S(n) : n \in Statements} \cup {P(n) : n \in Programs}

----------------------------------------------------------------------------
(* The traversal, one step at a time.  A frame is a task, its children     *)
(* reduced so far, the number of its hooks invoked and the value they      *)
(* built.                                                                  *)

Frame(t) == [task |-> t, kids |-> <<>>, stage |-> 0, cur |-> NoNode]
Top == stack[Len(stack)]
Pop == SubSeq(stack, 1, Len(stack) - 1)
ChildrenDone(f) == Len(f.kids) = Len(Children(f.task.node))
HooksDone(f) == f.stage = Len(Stages(f.task))
\* The value a frame holds once its children are reduced.
Current(f) == IF f.stage = 0 THEN Rebuilt(f.task.node, f.kids) ELSE f.cur
NextHook(f) == Stages(f.task)[f.stage + 1]
Invocation(f) == Hook(impl, self, NextHook(f), f.task.node, HookArgs(NextHook(f), f.task, f.kids, Current(f)))

Init ==
    /\ input \in Roots
    /\ impl \in Impls
    /\ self \in Reducers
    /\ self0 = self
    /\ stack = <<Frame(input)>>
    /\ status = "running"
    /\ output = NoResult
    /\ log = <<[ev |-> "submit", node |-> input.node, depth |-> 1]>>
    /\ hookCall = Idle

\* Descend going on to the later siblings after a failure.
Descend_after_failure ==
    /\ stack # <<>>
    /\ ~ChildrenDone(Top)
    /\ LET child == Children(Top.task.node)[Len(Top.kids) + 1] IN
       /\ stack' = Append(stack, Frame(child))
       /\ log' = Append(log, [ev |-> "submit", node |-> child.node, depth |-> Len(stack) + 1])
    /\ UNCHANGED <<self, self0, impl, input, status, output, hookCall>>

\* The next child of the node on top is submitted for reduction.
Descend ==
    /\ status = "running"
    /\ stack # <<>>
    /\ ~ChildrenDone(Top)
    /\ LET child == Children(Top.task.node)[Len(Top.kids) + 1] IN
       /\ stack' = Append(stack, Frame(child))
       /\ log' = Append(log, [ev |-> "submit", node |-> child.node, depth |-> Len(stack) + 1])
    /\ UNCHANGED <<self, self0, impl, input, status, output, hookCall>>

\* The next hook of the node on top is invoked and succeeds.
InvokeOk ==
    /\ status = "running"
    /\ stack # <<>>
    /\ ChildrenDone(Top)
    /\ ~HooksDone(Top)
    /\ Invocation(Top).result.ok
    /\ stack' = [stack EXCEPT ![Len(stack)] = [@ EXCEPT !.stage = @ + 1, !.cur = Invocation(Top).result.val]]
    /\ self' = Invocation(Top).self
    /\ log' = Append(log, [ev |-> "hook", hook |-> NextHook(Top), node |-> Top.task.node, depth |-> Len(stack), ok |-> TRUE])
    /\ UNCHANGED <<self0, impl, input, status, output, hookCall>>

\* InvokeErr swallowing the failure and going on with the original node.
InvokeErr_suppressed ==
    /\ status = "running"
    /\ stack # <<>>
    /\ ChildrenDone(Top)
    /\ ~HooksDone(Top)
    /\ ~Invocation(Top).result.ok
    /\ stack' = [stack EXCEPT ![Len(stack)] = [@ EXCEPT !.stage = @ + 1, !.cur = Top.task.node]]
    /\ self' = Invocation(Top).self
    /\ log' = Append(log, [ev |-> "hook", hook |-> NextHook(Top), node |-> Top.task.node, depth |-> Len(stack), ok |-> FALSE])
    /\ UNCHANGED <<self0, impl, input, status, output, hookCall>>

\* The next hook of the node on top is invoked and fails.
InvokeErr ==
    /\ status = "running"
    /\ stack # <<>>
    /\ ChildrenDone(Top)
    /\ ~HooksDone(Top)
    /\ ~Invocation(Top).result.ok
    /\ status' = "failed"
    /\ output' = Invocation(Top).result
    /\ self' = Invocation(Top).self
    /\ log' = Append(log, [ev |-> "hook", hook |-> NextHook(Top), node |-> Top.task.node, depth |-> Len(stack), ok |-> FALSE])
    /\ UNCHANGED <<self0, impl, input, stack, hookCall>>

\* The reduced node on top is handed to its parent.
Return ==
    /\ status = "running"
    /\ Len(stack) > 1
    /\ ChildrenDone(Top)
    /\ HooksDone(Top)
    /\ stack' = [Pop EXCEPT ![Len(stack) - 1] = [@ EXCEPT !.kids = Append(@, Current(Top))]]
    /\ UNCHANGED <<self, self0, impl, input, status, output, log, hookCall>>

\* The reduced root is the result.
Finish ==
    /\ status = "running"
    /\ Len(stack) = 1
    /\ ChildrenDone(Top)
    /\ HooksDone(Top)
    /\ stack' = <<>>
    /\ status' = "done"
    /\ output' = Ok(Current(Top))
    /\ UNCHANGED <<self, self0, impl, input, log, hookCall>>

\* The failure leaves the node on top for its parent: the ? operator.
Unwind ==
    /\ status = "failed"
    /\ stack # <<>>
    /\ stack' = Pop
    /\ log' = Append(log, [ev |-> "abort", node |-> Top.task.node, depth |-> Len(stack)])
    /\ UNCHANGED <<self, self0, impl, input, status, output, hookCall>>

Next == Descend \/ InvokeOk \/ InvokeErr \/ Return \/ Finish \/ Unwind

Spec == Init /\ [][Next]_vars

----------------------------------------------------------------------------
(* The traversal-level properties *)

Kid(n, i) == Children(n)[i].node
RECURSIVE Paths(_)
\* The places of a tree: the sequences of child indices leading to a node.
Paths(n) == {<<>>} \cup UNION {{<<i>> \o q : q \in Paths(Kid(n, i))} : i \in 1 .. Len(Children(n))}
RECURSIVE At(_, _)
At(n, q) == IF q = <<>> THEN n ELSE At(Kid(n, q[1]), Tail(q))
IsX(n) == n.kind = "Identifier" /\ n.name = "x"
\* The places of the identifiers named x.
XPlaces(n) == {q \in Paths(n) : IsX(At(n, q))}
IsPrefix(q, r) == Len(q) <= Len(r) /\ SubSeq(r, 1, Len(q)) = q
Keys(m) == [i \in 1 .. Len(m) |-> m[i][1]]
Failures == {i \in 1 .. Len(log) : log[i].ev = "hook" /\ ~log[i].ok}
Aborts == {i \in 1 .. Len(log) : log[i].ev = "abort"}
\* The place in the log where the node of frame k was submitted.
SubmittedAt(k) == CHOOSE j \in 1 .. Len(log) : log[j].ev = "submit" /\ log[j].depth = k /\ \A l \in (j + 1) .. Len(log) : ~(log[l].ev = "submit" /\ log[l].depth = k)
\* The children of the node of frame k submitted so far.
SubmittedChildren(k) == {j \in SubmittedAt(k) .. Len(log) : log[j].ev = "submit" /\ log[j].depth = k + 1}

\* C1: an all-default traversal does not fail, does not stop before the
\* root is rebuilt, and returns a tree equal to its input, every field and
\* every span.
C1_IdentityLaw ==
    impl = "default" =>
        /\ status # "failed"
        /\ status = "running" => ENABLED Next
        /\ status = "done" => output = Ok(input.node)

C1_Witness ==
    /\ impl = "default"
    /\ status = "done"
    /\ input.node.kind = "Program"
    /\ Len(input.node.functions) = 2
    /\ Len(input.node.circuits) = 1
    /\ output.ok
    /\ output.val = input.node

\* C2: once the reduction of a child has failed, nothing more is submitted
\* for reduction and no hook is invoked: not the later siblings, not the
\* hook of the parent, which waits with no hook invoked and with the failed
\* child as the last one submitted.
C2_FailFast ==
    /\ \A i \in Failures : \A j \in (i + 1) .. Len(log) : log[j].ev = "abort"
    /\ status = "failed" =>
          \A k \in 1 .. Len(stack) :
              ~ChildrenDone(stack[k]) =>
                  /\ stack[k].stage = 0
                  /\ Cardinality(SubmittedChildren(k)) = Len(stack[k].kids) + 1

\* The callee forbidden of the left operand of a Binary has failed, and the
\* Binary waits: no operand reduced, its hook not invoked.
C2_Witness ==
    /\ impl = "forbid"
    /\ status = "failed"
    /\ stack # <<>>
    /\ Top.task.node.kind = "Binary"
    /\ Top.task.node.left = ForbiddenCall
    /\ Top.task.node.right.kind = "Binary"
    /\ Top.kids = <<>>
    /\ Top.stage = 0
    /\ \A j \in 1 .. Len(log) : log[j].node # Top.task.node.right

\* C4: with reduce_identifier alone overridden, to rename x to y, the tree
\* returned has the shape and the spans of the input; every subtree that
\* holds no x is equal to the input's; each x is a y at the same span.
C4_LocalityOfChange ==
    (impl = "rename" /\ status = "done") =>
        /\ output.ok
        /\ Paths(output.val) = Paths(input.node)
        /\ \A q \in Paths(input.node) :
              LET old == At(input.node, q)
                  new == At(output.val, q)
              IN /\ new.kind = old.kind
                 /\ HasSpan(old) => (HasSpan(new) /\ new.span = old.span)
                 /\ (\A r \in XPlaces(input.node) : ~IsPrefix(q, r)) => new = old
                 /\ IsX(old) => new = Identifier("y", old.span)

\* One x, below two Binary nodes: only the nodes above it changed.
C4_Witness ==
    /\ impl = "rename"
    /\ status = "done"
    /\ Cardinality(XPlaces(input.node)) = 1
    /\ \E q \in XPlaces(input.node) :
          /\ Len(q) = 2
          /\ At(input.node, <<>>).kind = "Binary"
          /\ At(input.node, <<q[1]>>).kind = "Binary"
          /\ At(output.val, q).name = "y"
          /\ \A r \in Paths(input.node) : (At(output.val, r) # At(input.node, r)) <=> IsPrefix(r, q)

\* C6: an all-default traversal of a Program returns a Program with the
\* name of the input and, in imports, circuits, functions and global_consts,
\* the keys of the input in the order of the input.
C6_ProgramAggregateFidelity ==
    (impl = "default" /\ status = "done" /\ input.node.kind = "Program") =>
        /\ output.ok
        /\ output.val.name = input.node.name
        /\ Keys(output.val.imports) = Keys(input.node.imports)
        /\ Keys(output.val.circuits) = Keys(input.node.circuits)
        /\ Keys(output.val.functions) = Keys(input.node.functions)
        /\ Keys(output.val.global_consts) = Keys(input.node.global_consts)

C6_Witness ==
    /\ impl = "default"
    /\ status = "done"
    /\ input.node.kind = "Program"
    /\ Keys(input.node.imports) = <<<<"a", "b">>, <<"a">>>>
    /\ Len(input.node.global_consts) = 1
    /\ Keys(output.val.imports) = <<<<"a", "b">>, <<"a">>>>

\* C7: a hook fails at most once in a traversal; from then on the traversal
\* is failed and its result is the error of that hook, never a tree; the
\* failure passes through every ancestor, the innermost first, up to the
\* root; a traversal that returns a tree had no failure.
C7_FailurePropagation ==
    /\ Cardinality(Failures) <= 1
    /\ status = "failed" <=> Failures # {}
    /\ \A i \in Failures :
          /\ output = Err(log[i].node.span)
          /\ \A j \in Aborts : j > i /\ log[j].depth = log[i].depth - (j - i - 1)
          /\ stack = <<>> => Cardinality(Aborts) = log[i].depth
          /\ Len(stack) + Cardinality(Aborts) = log[i].depth
    /\ status = "done" => (output.ok /\ Failures = {})
    /\ status = "running" => output = NoResult

\* The call of forbidden in the body of a function failed, and the failure
\* has left the Program at the root.
C7_Witness ==
    /\ impl = "forbid"
    /\ status = "failed"
    /\ stack = <<>>
    /\ input.node.kind = "Program"
    /\ output = Err(ForbiddenCall.span)
    /\ Cardinality(Aborts) >= 5

\* C10: in an all-default traversal the in-circuit bit is, at every step,
\* the bit the traversal started with.
C10_InCircuitUnchanged == impl = "default" => in_circuit(self) = in_circuit(self0)

C10_Witness ==
    /\ impl = "default"
    /\ status = "done"
    /\ input.node.kind = "Program"
    /\ Len(input.node.circuits) = 2
    /\ in_circuit(self0)
    /\ in_circuit(self)

----------------------------------------------------------------------------
(* The hook-level properties *)

\* C3 as stated: every default hook, the pass-through ones included, returns
\* a node whose span is the span of the original node it was handed.
C3_SpanOfOriginalEveryHook ==
    (Called /\ hookCall.result.ok /\ HasSpan(hookCall.orig))
        => (HasSpan(hookCall.result.val) /\ hookCall.result.val.span = hookCall.orig.span)

\* C3: the default hook of every node kind that has a span and a hook of its
\* own returns a node with the span of the original, whatever the spans of
\* the supplied children; a node kind without a span field gets none; a
\* summary hook returns the value it was handed, with that value's span.
C3_SpanPreserved ==
    Called =>
        /\ hookCall.result.ok
        /\ hookCall.hook \in SpannedHooks => hookCall.result.val.span = OrigSpan(hookCall)
        /\ hookCall.hook \in SpanlessHooks \ {"reduce_import"} => ~HasSpan(hookCall.result.val)
        /\ hookCall.hook \in SummaryHooks => hookCall.result.val = hookCall.args.new

C3_Witness ==
    /\ Called
    /\ hookCall.hook = "reduce_binary"
    /\ hookCall.args.left.span # hookCall.orig.span
    /\ hookCall.args.right.span # hookCall.orig.span
    /\ hookCall.args.left.span # hookCall.orig.left.span
    /\ hookCall.result.val.span = hookCall.orig.span

\* C5: the Conditional built by default has an else-branch exactly when one
\* is supplied, and it is the supplied one; the range access built by
\* default has each bound exactly when that bound is supplied.
C5_OptionalityPreserved ==
    /\ (Called /\ hookCall.hook = "reduce_conditional") =>
          /\ hookCall.result.ok
          /\ hookCall.result.val.next.some = hookCall.args.statement.some
          /\ hookCall.result.val.next = hookCall.args.statement
    /\ (Called /\ hookCall.hook = "reduce_array_range_access") =>
          /\ hookCall.result.ok
          /\ hookCall.result.val.left.some = hookCall.args.left.some
          /\ hookCall.result.val.right.some = hookCall.args.right.some
          /\ hookCall.result.val.left = hookCall.args.left
          /\ hookCall.result.val.right = hookCall.args.right

C5_Witness ==
    /\ Called
    /\ hookCall.hook = "reduce_conditional"
    /\ hookCall.orig.next.some
    /\ ~hookCall.args.statement.some
    /\ hookCall.result.val.next = None

\* C8: every default hook returns Ok, whatever it is handed.
C8_DefaultsNeverFail == Called => hookCall.result.ok

C8_Witness ==
    /\ Called
    /\ hookCall.hook = "reduce_array_range_access"
    /\ ~hookCall.args.left.some
    /\ ~hookCall.args.right.some
    /\ hookCall.result.ok

\* C9 as stated: a default specific-kind hook returns the supplied children
\* in the recursive fields and copies every other field from the original,
\* Function.const_ among them.
C9_ConstCopiedFromOriginal ==
    (Called /\ hookCall.hook \in SpecificHooks \ {"reduce_import", "reduce_string"}) =>
        /\ hookCall.result.ok
        /\ Reassembled(hookCall, hookCall.result.val, SuppliedFields(hookCall.hook),
                       IdentityFields(hookCall.hook) \cup SpanField(hookCall.hook)
                           \cup (IF hookCall.hook = "reduce_function" THEN {"const_"} ELSE {}))

\* C9: a default specific-kind hook returns exactly the supplied values in
\* the fields it is handed (Function.const_ is one of them, as the operator
\* of a Binary or Unary is) and copies every other field from the original.
C9_PureReassembly ==
    (Called /\ hookCall.hook \in SpecificHooks) =>
        /\ hookCall.result.ok
        /\ hookCall.hook = "reduce_import" => hookCall.result.val = <<hookCall.args.identifier, hookCall.args.import>>
        /\ hookCall.hook # "reduce_import" =>
              Reassembled(hookCall, hookCall.result.val,
                          SuppliedFields(hookCall.hook) \cup (IF hookCall.hook = "reduce_function" THEN Same({"const_"}) ELSE {}),
                          IdentityFields(hookCall.hook) \cup (SpanField(hookCall.hook) \ {p[2] : p \in SuppliedFields(hookCall.hook)}))

C9_Witness ==
    /\ Called
    /\ hookCall.hook = "reduce_function"
    /\ hookCall.args.const_ # hookCall.orig.const_
    /\ hookCall.args.block # hookCall.orig.block \/ hookCall.args.identifier # hookCall.orig.identifier
    /\ hookCall.result.val.const_ = hookCall.args.const_
    /\ hookCall.result.val.core_mapping = hookCall.orig.core_mapping

====
